---- MODULE Spec2Model ----
(***************************************************************************)
(* Model of the two LittleFS upload scripts of rbattiston/SNRv9:           *)
(*   upload_littlefs.py         argument-list launch, captured output      *)
(*   upload_littlefs_simple.py  shell-string launch, inherited output      *)
(* One run of one script is one behaviour.  The script is a straight-line  *)
(* program; pc holds the source line about to be executed.  The flashing   *)
(* tool is an opaque child process whose outcome the environment chooses.  *)
(* Paths are sequences of components (os.sep is written "/").              *)
(***************************************************************************)
EXTENDS Integers, Sequences, FiniteSets, TLC

VARIABLES
    script,         \* which of the two files is run
    home,           \* the user's home directory (what "~" expands to)
    startCwd,       \* directory the script was started from
    fs,             \* set of paths that exist on disk
    spawnOk,        \* whether the OS can create the child process
    pc,             \* source line about to run, or "exited"
    cwd,            \* the script's current working directory
    pio_python,     \* upload_littlefs_simple.py:6
    pio_packages,   \* upload_littlefs.py:7, upload_littlefs_simple.py:7
    esptool_path,   \* upload_littlefs.py:8
    esptool_dir,    \* upload_littlefs_simple.py:10
    esptool_script, \* upload_littlefs_simple.py:11
    cmd,            \* the command, as its sequence of tokens
    result,         \* upload_littlefs.py:25, the CompletedProcess
    stdout,         \* what the script has printed, one entry per print()
    stderr,         \* the interpreter's traceback output
    child,          \* the child process
    launches,       \* number of child processes created in this run
    exitCode        \* the script's exit status once pc = "exited"

vars == <<script, home, startCwd, fs, spawnOk, pc, cwd, pio_python,
          pio_packages, esptool_path, esptool_dir, esptool_script, cmd,
          result, stdout, stderr, child, launches, exitCode>>

env == <<script, home, startCwd, fs, spawnOk>>
localsFull == <<pio_packages, esptool_path, result>>
localsSimple == <<pio_python, esptool_dir, esptool_script>>

-----------------------------------------------------------------------------
(* Bounds and input sets *)

MaxExitCode == 2

Scripts == {"upload_littlefs", "upload_littlefs_simple"}
Homes == {<<"home", "pio">>, <<"Users", "John Doe">>}
StartDirs == {<<"proj">>, <<"proj", "data">>}
ExitCodes == 0..MaxExitCode
Signals == {9, 15}
ChildStdouts == {"", "Wrote 1 file"}
ChildStderrs == {"", "could not connect"}

-----------------------------------------------------------------------------
(* Path and string helpers (os.path, str.join) *)

RECURSIVE Join(_, _)
Join(tokens, sep) ==
    IF tokens = <<>> THEN ""
    ELSE IF Len(tokens) = 1 THEN tokens[1]
    ELSE tokens[1] \o sep \o Join(Tail(tokens), sep)

RECURSIVE PathStr(_)
PathStr(p) == IF p = <<>> THEN "" ELSE "/" \o Head(p) \o PathStr(Tail(p))

ExpandUser(h, rest) == h \o rest

PathJoin(a, b) == a \o b

RECURSIVE NormPath(_, _)
NormPath(acc, rest) ==
    IF rest = <<>> THEN acc
    ELSE IF Head(rest) = ".."
         THEN NormPath(IF acc = <<>> THEN <<>> ELSE SubSeq(acc, 1, Len(acc) - 1),
                       Tail(rest))
         ELSE NormPath(Append(acc, Head(rest)), Tail(rest))

AbsPath(dir, rel) == NormPath(<<>>, dir \o rel)

OsPathExists(p, files) == p \in files

ToolDirOf(h) == h \o <<".platformio", "packages", "tool-esptoolpy">>

ToolFileOf(h) == ToolDirOf(h) \o <<"esptool.py">>

ToolMissing_never(p, files) == FALSE

ToolMissing(p, files) == ~OsPathExists(p, files)

Quote(s) == "\"" \o s \o "\""

-----------------------------------------------------------------------------
(* Statement order of the two scripts *)

LinesFull ==
    <<"L7", "L8", "L10", "L11", "L12", "L15", "L24", "L25", "L25wait",
      "L27", "L28", "L29", "L30", "L31", "L33">>

LinesSimple_abspathBeforeChdir ==
    <<"S6", "S7", "S10", "S11", "S15", "S14", "S16", "S17", "S17wait", "Send">>

LinesSimple_retry ==
    <<"S6", "S7", "S10", "S11", "S14", "S15", "S16", "S17", "S17wait", "S17">>

LinesSimple ==
    <<"S6", "S7", "S10", "S11", "S14", "S15", "S16", "S17", "S17wait", "Send">>

Lines == IF script = "upload_littlefs" THEN LinesFull ELSE LinesSimple

IndexOf(seq, l) == CHOOSE i \in 1..Len(seq) : seq[i] = l /\ \A j \in 1..(i-1) : seq[j] # l

NextLine(l) == Lines[IndexOf(Lines, l) + 1]

FirstLine == Lines[1]

-----------------------------------------------------------------------------
(* The command *)

BuildCommandFull_subcommandFirst(python, tool) ==
    <<python, tool, "write_flash", "--port", "COM3", "0x580000",
      "littlefs_image.bin">>

BuildCommandFull(python, tool) ==
    <<python, tool, "--port", "COM3", "write_flash", "0x580000",
      "littlefs_image.bin">>

BuildCommandSimple(python, image) ==
    <<Quote(python), "esptool.py", "--port", "COM3", "write_flash", "0x580000",
      Quote(image)>>

ExecutingLine_noSeparator(c) == "Executing: " \o Join(c, "")

ExecutingLine(c) == "Executing: " \o Join(c, " ")

SysExecutable == "python3"

-----------------------------------------------------------------------------
(* The child process and the interpreter's exit *)

NoChild == [state |-> "none", argv |-> <<>>, cwd |-> <<>>, returncode |-> 0,
            stdout |-> "", stderr |-> ""]

NoResult == [returncode |-> 0, stdout |-> "", stderr |-> ""]

Spawn(argv, dir) == [NoChild EXCEPT !.state = "running", !.argv = argv, !.cwd = dir]

ReturnCode(kind, n) == IF kind = "signal" THEN 0 - n ELSE n

WaitReturns_withoutWaiting(c) == c.state # "none"

WaitReturns(c) == c.state = "exited"

ExitStatus(n) == n % 256

StderrNonEmpty_onFailureOnly(r) == r.returncode # 0

StderrNonEmpty(r) == r.stderr # ""

SysExit(n) ==
    /\ pc' = "exited"
    /\ exitCode' = ExitStatus(n)

UncaughtException(name) ==
    /\ stderr' = Append(stderr, "Traceback: " \o name)
    /\ SysExit(1)

-----------------------------------------------------------------------------
Init ==
    /\ script \in Scripts
    /\ home \in Homes
    /\ startCwd \in StartDirs
    /\ \E dirThere \in BOOLEAN, toolThere \in BOOLEAN :
         /\ toolThere => dirThere
         /\ fs = (IF dirThere THEN {ToolDirOf(home)} ELSE {})
                   \cup (IF toolThere THEN {ToolFileOf(home)} ELSE {})
    /\ spawnOk \in BOOLEAN
    /\ pc = FirstLine
    /\ cwd = startCwd
    /\ pio_python = <<>>
    /\ pio_packages = <<>>
    /\ esptool_path = <<>>
    /\ esptool_dir = <<>>
    /\ esptool_script = <<>>
    /\ cmd = <<>>
    /\ result = NoResult
    /\ stdout = <<>>
    /\ stderr = <<>>
    /\ child = NoChild
    /\ launches = 0
    /\ exitCode = 0

-----------------------------------------------------------------------------
(* upload_littlefs.py *)

FullPioPackages ==
    /\ pc = "L7"
    /\ pio_packages' = ExpandUser(home, <<".platformio", "packages">>)
    /\ pc' = NextLine("L7")
    /\ UNCHANGED <<env, cwd, localsSimple, esptool_path, result, cmd, stdout,
                   stderr, child, launches, exitCode>>

FullEsptoolPath ==
    /\ pc = "L8"
    /\ esptool_path' = PathJoin(pio_packages, <<"tool-esptoolpy", "esptool.py">>)
    /\ pc' = NextLine("L8")
    /\ UNCHANGED <<env, cwd, localsSimple, pio_packages, result, cmd, stdout,
                   stderr, child, launches, exitCode>>

FullCheckExists ==
    /\ pc = "L10"
    /\ pc' = IF ToolMissing(esptool_path, fs) THEN NextLine("L10") ELSE "L15"
    /\ UNCHANGED <<env, cwd, localsSimple, localsFull, cmd, stdout, stderr,
                   child, launches, exitCode>>

FullPrintNotFound ==
    /\ pc = "L11"
    /\ stdout' = Append(stdout,
                        "Error: esptool.py not found at " \o PathStr(esptool_path))
    /\ pc' = NextLine("L11")
    /\ UNCHANGED <<env, cwd, localsSimple, localsFull, cmd, stderr, child,
                   launches, exitCode>>

FullExitNotFound ==
    /\ pc = "L12"
    /\ SysExit(1)
    /\ UNCHANGED <<env, cwd, localsSimple, localsFull, cmd, stdout, stderr,
                   child, launches>>

FullBuildCommand ==
    /\ pc = "L15"
    /\ cmd' = BuildCommandFull(SysExecutable, PathStr(esptool_path))
    /\ pc' = NextLine("L15")
    /\ UNCHANGED <<env, cwd, localsSimple, localsFull, stdout, stderr, child,
                   launches, exitCode>>

FullPrintExecuting ==
    /\ pc = "L24"
    /\ stdout' = Append(stdout, ExecutingLine(cmd))
    /\ pc' = NextLine("L24")
    /\ UNCHANGED <<env, cwd, localsSimple, localsFull, cmd, stderr, child,
                   launches, exitCode>>

\* subprocess.run: Popen either creates the child or raises OSError, which
\* nothing catches.
FullRunLaunch ==
    /\ pc = "L25"
    /\ IF spawnOk
       THEN /\ child' = Spawn(cmd, cwd)
            /\ launches' = launches + 1
            /\ pc' = NextLine("L25")
            /\ UNCHANGED <<stderr, exitCode>>
       ELSE /\ UncaughtException("OSError")
            /\ UNCHANGED <<child, launches>>
    /\ UNCHANGED <<env, cwd, localsSimple, localsFull, cmd, stdout>>

\* subprocess.run returns only once the child has exited (communicate + wait).
FullRunReturn ==
    /\ pc = "L25wait"
    /\ WaitReturns(child)
    /\ result' = [returncode |-> child.returncode, stdout |-> child.stdout,
                  stderr |-> child.stderr]
    /\ pc' = NextLine("L25wait")
    /\ UNCHANGED <<env, cwd, localsSimple, pio_packages, esptool_path, cmd,
                   stdout, stderr, child, launches, exitCode>>

FullPrintStdoutHeader ==
    /\ pc = "L27"
    /\ stdout' = Append(stdout, "STDOUT:")
    /\ pc' = NextLine("L27")
    /\ UNCHANGED <<env, cwd, localsSimple, localsFull, cmd, stderr, child,
                   launches, exitCode>>

FullPrintStdout ==
    /\ pc = "L28"
    /\ stdout' = Append(stdout, result.stdout)
    /\ pc' = NextLine("L28")
    /\ UNCHANGED <<env, cwd, localsSimple, localsFull, cmd, stderr, child,
                   launches, exitCode>>

FullCheckStderr ==
    /\ pc = "L29"
    /\ pc' = IF StderrNonEmpty(result) THEN NextLine("L29") ELSE "L33"
    /\ UNCHANGED <<env, cwd, localsSimple, localsFull, cmd, stdout, stderr,
                   child, launches, exitCode>>

FullPrintStderrHeader ==
    /\ pc = "L30"
    /\ stdout' = Append(stdout, "STDERR:")
    /\ pc' = NextLine("L30")
    /\ UNCHANGED <<env, cwd, localsSimple, localsFull, cmd, stderr, child,
                   launches, exitCode>>

FullPrintStderr ==
    /\ pc = "L31"
    /\ stdout' = Append(stdout, result.stderr)
    /\ pc' = NextLine("L31")
    /\ UNCHANGED <<env, cwd, localsSimple, localsFull, cmd, stderr, child,
                   launches, exitCode>>

FullExit ==
    /\ pc = "L33"
    /\ SysExit(result.returncode)
    /\ UNCHANGED <<env, cwd, localsSimple, localsFull, cmd, stdout, stderr,
                   child, launches>>

-----------------------------------------------------------------------------
(* upload_littlefs_simple.py *)

SimplePioPython ==
    /\ pc = "S6"
    /\ pio_python' = ExpandUser(home, <<".platformio", "python3", "python.exe">>)
    /\ pc' = NextLine("S6")
    /\ UNCHANGED <<env, cwd, localsFull, esptool_dir, esptool_script, cmd,
                   stdout, stderr, child, launches, exitCode>>

SimplePioPackages ==
    /\ pc = "S7"
    /\ pio_packages' = ExpandUser(home, <<".platformio", "packages">>)
    /\ pc' = NextLine("S7")
    /\ UNCHANGED <<env, cwd, localsSimple, esptool_path, result, cmd, stdout,
                   stderr, child, launches, exitCode>>

SimpleEsptoolDir ==
    /\ pc = "S10"
    /\ esptool_dir' = PathJoin(pio_packages, <<"tool-esptoolpy">>)
    /\ pc' = NextLine("S10")
    /\ UNCHANGED <<env, cwd, localsFull, pio_python, esptool_script, cmd,
                   stdout, stderr, child, launches, exitCode>>

SimpleEsptoolScript ==
    /\ pc = "S11"
    /\ esptool_script' = PathJoin(esptool_dir, <<"esptool.py">>)
    /\ pc' = NextLine("S11")
    /\ UNCHANGED <<env, cwd, localsFull, pio_python, esptool_dir, cmd, stdout,
                   stderr, child, launches, exitCode>>

\* os.chdir raises FileNotFoundError when the directory does not exist.
SimpleChdir ==
    /\ pc = "S14"
    /\ IF OsPathExists(esptool_dir, fs)
       THEN /\ cwd' = esptool_dir
            /\ pc' = NextLine("S14")
            /\ UNCHANGED <<stderr, exitCode>>
       ELSE /\ UncaughtException("FileNotFoundError")
            /\ UNCHANGED cwd
    /\ UNCHANGED <<env, localsFull, localsSimple, cmd, stdout, child, launches>>

SimpleBuildCommand ==
    /\ pc = "S15"
    /\ cmd' = BuildCommandSimple(
                  PathStr(pio_python),
                  PathStr(AbsPath(cwd, <<"..", "..", "littlefs_image.bin">>)))
    /\ pc' = NextLine("S15")
    /\ UNCHANGED <<env, cwd, localsFull, localsSimple, stdout, stderr, child,
                   launches, exitCode>>

SimplePrintExecuting ==
    /\ pc = "S16"
    /\ stdout' = Append(stdout, ExecutingLine(cmd))
    /\ pc' = NextLine("S16")
    /\ UNCHANGED <<env, cwd, localsFull, localsSimple, cmd, stderr, child,
                   launches, exitCode>>

\* os.system: hands the string to the shell; when no process can be created it
\* returns -1 instead of raising.  The return value is dropped either way.
SimpleSystemLaunch ==
    /\ pc = "S17"
    /\ IF spawnOk
       THEN /\ child' = Spawn(cmd, cwd)
            /\ launches' = launches + 1
            /\ pc' = NextLine("S17")
       ELSE /\ pc' = NextLine("S17wait")
            /\ UNCHANGED <<child, launches>>
    /\ UNCHANGED <<env, cwd, localsFull, localsSimple, cmd, stdout, stderr,
                   exitCode>>

SimpleSystemReturn ==
    /\ pc = "S17wait"
    /\ WaitReturns(child)
    /\ pc' = NextLine("S17wait")
    /\ UNCHANGED <<env, cwd, localsFull, localsSimple, cmd, stdout, stderr,
                   child, launches, exitCode>>

\* End of file: the interpreter exits with status 0.
SimpleFallOffEnd ==
    /\ pc = "Send"
    /\ SysExit(0)
    /\ UNCHANGED <<env, cwd, localsFull, localsSimple, cmd, stdout, stderr,
                   child, launches>>

-----------------------------------------------------------------------------
(* The environment: the child process ends, by exit or by signal *)

ChildExit ==
    /\ child.state = "running"
    /\ \E kind \in {"exit", "signal"}, out \in ChildStdouts, err \in ChildStderrs :
         \E n \in (IF kind = "exit" THEN ExitCodes ELSE Signals) :
            child' = [child EXCEPT !.state = "exited",
                                   !.returncode = ReturnCode(kind, n),
                                   !.stdout = out,
                                   !.stderr = err]
    /\ UNCHANGED <<env, pc, cwd, localsFull, localsSimple, cmd, stdout, stderr,
                   launches, exitCode>>

ScriptStep ==
    \/ FullPioPackages
    \/ FullEsptoolPath
    \/ FullCheckExists
    \/ FullPrintNotFound
    \/ FullExitNotFound
    \/ FullBuildCommand
    \/ FullPrintExecuting
    \/ FullRunLaunch
    \/ FullRunReturn
    \/ FullPrintStdoutHeader
    \/ FullPrintStdout
    \/ FullCheckStderr
    \/ FullPrintStderrHeader
    \/ FullPrintStderr
    \/ FullExit
    \/ SimplePioPython
    \/ SimplePioPackages
    \/ SimpleEsptoolDir
    \/ SimpleEsptoolScript
    \/ SimpleChdir
    \/ SimpleBuildCommand
    \/ SimplePrintExecuting
    \/ SimpleSystemLaunch
    \/ SimpleSystemReturn
    \/ SimpleFallOffEnd

Next == ScriptStep \/ ChildExit

Spec == Init /\ [][Next]_vars

\* The interpreter keeps executing statements: a script step that stays
\* enabled is eventually taken.  Nothing is assumed about the child.
FairSpec == Spec /\ WF_vars(ScriptStep)

-----------------------------------------------------------------------------
(* Properties *)

Launched == launches > 0

Full == script = "upload_littlefs"

Simple == script = "upload_littlefs_simple"

PrintedCommand(c) == "Executing: " \o Join(c, " ")

\* C1: in upload_littlefs.py, whenever the child was launched, the script's
\* exit code equals the child's exit code (result.returncode), also when the
\* child was terminated by a signal.
C1_ExitCodeEqualsChild ==
    (Full /\ Launched /\ pc = "exited") => exitCode = child.returncode

\* C2: in upload_littlefs.py, when esptool.py is absent at the resolved path,
\* no command is built or printed, no child is ever launched, and the script
\* ends having printed exactly the error naming that path, with exit code 1.
C2_ToolAbsentExitsOne ==
    (Full /\ ToolFileOf(home) \notin fs) =>
        /\ launches = 0
        /\ child.state = "none"
        /\ cmd = <<>>
        /\ pc = "exited" =>
             /\ exitCode = 1
             /\ stdout = <<"Error: esptool.py not found at "
                             \o PathStr(ToolFileOf(home))>>

C2_Witness ==
    Full /\ ToolFileOf(home) \notin fs /\ pc = "exited" /\ spawnOk

\* C3: in upload_littlefs_simple.py, whenever the launched child ended with a
\* non-zero code, the script exits with a non-zero code equal to the child's.
C3_SimplePropagatesFailure ==
    (Simple /\ Launched /\ pc = "exited" /\ child.returncode # 0) =>
        (exitCode # 0 /\ exitCode = child.returncode)

\* C4: in upload_littlefs_simple.py, when esptool.py is absent at the resolved
\* path, no child is launched and the script exits non-zero, whether the
\* tool-esptoolpy directory is missing or only the file is.
C4_SimpleToolAbsentNoLaunch ==
    (Simple /\ ToolFileOf(home) \notin fs) =>
        /\ launches = 0
        /\ pc = "exited" => exitCode # 0

\* C5: in either script the child is launched at most once, and once the
\* child has ended the script is past the launch: it only waits for the
\* result, reports and exits.
C5_AtMostOneLaunch ==
    /\ launches <= 1
    /\ child.state = "exited" =>
         pc \in {"L25wait", "L27", "L28", "L29", "L30", "L31", "L33",
                 "S17wait", "Send", "exited"}

C5_Witness ==
    launches = 1 /\ pc = "exited" /\ child.returncode # 0

\* C6 as stated: the tokens after the tool are in the order write_flash,
\* --port, COM3, 0x580000, image path.
C6_SubcommandBeforePort ==
    cmd # <<>> =>
        /\ cmd[3] = "write_flash"
        /\ cmd[4] = "--port"
        /\ cmd[5] = "COM3"
        /\ cmd[6] = "0x580000"

\* C6 as amended: the command is a function of the configuration alone and its
\* tokens are in the fixed order interpreter, tool script, --port, COM3,
\* write_flash, 0x580000, image path.
C6_FixedTokenOrder ==
    cmd # <<>> =>
        cmd = <<IF Full THEN "python3"
                ELSE Quote(PathStr(home \o <<".platformio", "python3", "python.exe">>)),
                IF Full THEN PathStr(ToolFileOf(home)) ELSE "esptool.py",
                "--port", "COM3", "write_flash", "0x580000",
                IF Full THEN "littlefs_image.bin"
                ELSE Quote(PathStr(home \o <<".platformio", "littlefs_image.bin">>))>>

C6_Witness ==
    Full /\ cmd # <<>> /\ child.state = "exited"

\* C7: whenever a child has been launched, the line "Executing: <command>" was
\* already printed, and the command launched is the command held in cmd and
\* the one printed.
C7_PrintedBeforeLaunch ==
    child.state # "none" =>
        /\ child.argv = cmd
        /\ Len(stdout) >= 1
        /\ stdout[1] = PrintedCommand(child.argv)

C7_Witness ==
    child.state = "running" /\ Len(stdout) = 1

\* C8: in upload_littlefs.py, once the child has run and the script is at its
\* final exit or past it, the output is the command line, "STDOUT:", the
\* child's stdout (even when empty), and then "STDERR:" and the child's stderr
\* exactly when that stderr is non-empty.
C8_ReportsCapturedStreams ==
    (Full /\ Launched /\ pc \in {"L33", "exited"}) =>
        stdout = <<PrintedCommand(child.argv), "STDOUT:", child.stdout>>
                 \o (IF child.stderr # "" THEN <<"STDERR:", child.stderr>> ELSE <<>>)

C8_Witness ==
    /\ Full /\ pc = "exited"
    /\ child.returncode = 2 /\ child.stderr = "could not connect"
    /\ child.stdout = ""
    /\ exitCode = 2

\* C9: in upload_littlefs_simple.py the image path in the command is two
\* directories up from the tool's install directory, which is also the child's
\* working directory, whatever the start directory; in upload_littlefs.py the
\* working directory stays the start directory and the image token is the
\* relative name littlefs_image.bin.
C9_ImagePathResolution ==
    /\ (Simple /\ cmd # <<>>) =>
         /\ cwd = ToolDirOf(home)
         /\ cmd[7] = Quote(PathStr(SubSeq(ToolDirOf(home), 1, Len(ToolDirOf(home)) - 2)
                                     \o <<"littlefs_image.bin">>))
    /\ (Simple /\ child.state # "none") => child.cwd = ToolDirOf(home)
    /\ Full =>
         /\ cwd = startCwd
         /\ cmd # <<>> => cmd[7] = "littlefs_image.bin"
         /\ child.state # "none" => child.cwd = startCwd

C9_Witness ==
    Simple /\ child.state = "running" /\ startCwd = <<"proj", "data">>

\* C10: while the child is running the script takes no step and has not
\* exited, and once the child has exited the script eventually exits.
C10_Synchronous ==
    /\ [](pc = "exited" => child.state # "running")
    /\ [][child.state = "running" =>
            (pc' = pc /\ stdout' = stdout /\ stderr' = stderr /\ exitCode' = exitCode)]_vars
    /\ (child.state = "exited") ~> (pc = "exited")

C10_Witness ==
    pc = "exited" /\ child.state = "exited" /\ stdout # <<>>

====
